---- MODULE Spec2Model ----
(***************************************************************************)
(* A network of Ben-Or consensus nodes, as implemented by node() in        *)
(* src/nodes/node.ts.  Every node is an express server with the handlers   *)
(* /message, /start, /stop and /getState and one asynchronous driver loop  *)
(* (startConsensus).  JavaScript runs each handler and each stretch of the *)
(* driver between two awaits atomically, so every action below is one such *)
(* stretch.                                                                *)
(***************************************************************************)
EXTENDS Integers, Sequences, FiniteSets, Bags, TLC

\* ------------------------------------------------------------------ bounds

\* Rounds 0..MaxRound are run; a driver that reaches round MaxRound + 1 is
\* not followed any further.
MaxRound == 1

\* The embedder's test client posts at most MaxPosts messages of its own.
MaxPosts == 1

\* ------------------------------------------------------------ configuration

\* The networks that are explored: the arguments N, F and isFaulty of node(),
\* the same for every node of one network.  Configs are the small networks,
\* started, stopped and inspected in any order; NetConfigs are the networks
\* of three nodes, started and left to run; ApiConfigs are the networks with
\* one live node, to which a client also posts messages of its own.
Configs ==
  { [N |-> 1, F |-> 0, faulty |-> {}],
    [N |-> 2, F |-> 0, faulty |-> {}],
    [N |-> 2, F |-> 1, faulty |-> {1}] }

ApiConfigs ==
  { [N |-> 1, F |-> 0, faulty |-> {}],
    [N |-> 2, F |-> 1, faulty |-> {1}] }

NetConfigs ==
  { [N |-> 3, F |-> 0, faulty |-> {}],
    [N |-> 3, F |-> 1, faulty |-> {2}] }

NULL == "null"

\* The values a node holds and sends: 0, 1 and "?", by their toString().
Value == {"0", "1", "?"}
Bit == {"0", "1"}

VARIABLES
  N,                 \* total number of nodes
  F,                 \* presumed number of faulty nodes
  isFaulty,          \* isFaulty[i]
  initialValue,      \* initialValue[i]
  killed,            \* state.killed of node i
  x,                 \* state.x
  decided,           \* state.decided
  k,                 \* state.k
  phaseOneMessages,  \* phaseOneMessages[i]: round -> array of {value, from}
  phaseTwoMessages,  \* phaseTwoMessages[i]
  consensusRunning,  \* consensusRunning[i]
  pc,                \* where the driver loop of node i is suspended
  network,           \* the fetch requests issued and not yet answered
  res,               \* the last response sent to the embedder's client
  posted             \* number of messages the embedder's client has posted

vars == <<N, F, isFaulty, initialValue, killed, x, decided, k,
          phaseOneMessages, phaseTwoMessages, consensusRunning, pc,
          network, res, posted>>

Nodes == 0 .. (N - 1)

\* ------------------------------------------------------------ pure helpers

\* An array of {value, from} entries is read only through its length and
\* through the number of its entries with a given value, never by position:
\* it is kept as the bag of its entries.

\* Number of entries of the array msgs whose value is v (the for loops of
\* processPhaseOneMessages and processPhaseTwoMessages).
CountOf(msgs, v) ==
  BagCardinality([e \in {d \in DOMAIN msgs : d.value = v} |-> msgs[e]])

\* messages[k] of a Record<number, array>: the empty array when it is unset.
Bucket(messages, r) == IF r \in DOMAIN messages THEN messages[r] ELSE EmptyBag

\* messages[k].push(entry), creating the array first when it is unset.
Push(messages, r, entry) ==
  IF r \in DOMAIN messages
    THEN [messages EXCEPT ![r] = @ (+) SetToBag({entry})]
    ELSE messages @@ (r :> SetToBag({entry}))

\* if (!messages[k]) messages[k] = [];
Touch(messages, r) ==
  IF r \in DOMAIN messages THEN messages ELSE messages @@ (r :> EmptyBag)

\* Math.floor(N / 2) + 1
Majority == (N \div 2) + 1

\* Math.floor((N - F) / 2) + 1 and Math.floor((N - F) / 3) + 1
DecisionThreshold == ((N - F) \div 2) + 1
AdoptionThreshold == ((N - F) \div 3) + 1

\* PhaseOneResult with the value that has more votes than the other taken,
\* whether or not it reaches the majority.
PhaseOneResultPlurality(own, msgs) ==
  LET c0 == (IF own = "0" THEN 1 ELSE 0) + CountOf(msgs, "0")
      c1 == (IF own = "1" THEN 1 ELSE 0) + CountOf(msgs, "1")
  IN  IF c0 > c1 THEN "0"
      ELSE IF c1 > c0 THEN "1"
      ELSE "?"

\* PhaseOneResult with the majority taken as Math.floor(N / 2).
PhaseOneResultHalf(own, msgs) ==
  LET c0 == (IF own = "0" THEN 1 ELSE 0) + CountOf(msgs, "0")
      c1 == (IF own = "1" THEN 1 ELSE 0) + CountOf(msgs, "1")
  IN  IF c0 >= N \div 2 THEN "0"
      ELSE IF c1 >= N \div 2 THEN "1"
      ELSE "?"

\* The value processPhaseOneMessages assigns to state.x.
PhaseOneResult(own, msgs) ==
  LET c0 == (IF own = "0" THEN 1 ELSE 0) + CountOf(msgs, "0")
      c1 == (IF own = "1" THEN 1 ELSE 0) + CountOf(msgs, "1")
  IN  IF c0 >= Majority THEN "0"
      ELSE IF c1 >= Majority THEN "1"
      ELSE "?"

\* PhaseTwoBranch with the tests state.x === 0 and state.x === 1 of the
\* decision left out.
PhaseTwoBranchNoOwnMatch(own, msgs) ==
  LET c0 == (IF own = "0" THEN 1 ELSE 0) + CountOf(msgs, "0")
      c1 == (IF own = "1" THEN 1 ELSE 0) + CountOf(msgs, "1")
  IN  IF c0 >= DecisionThreshold THEN "decide"
      ELSE IF c1 >= DecisionThreshold THEN "decide"
      ELSE IF c0 >= AdoptionThreshold THEN "adopt0"
      ELSE IF c1 >= AdoptionThreshold THEN "adopt1"
      ELSE "random"

\* PhaseTwoBranch with the adoption tests placed before the decision tests.
PhaseTwoBranchAdoptsFirst(own, msgs) ==
  LET c0 == (IF own = "0" THEN 1 ELSE 0) + CountOf(msgs, "0")
      c1 == (IF own = "1" THEN 1 ELSE 0) + CountOf(msgs, "1")
  IN  IF c0 >= AdoptionThreshold THEN "adopt0"
      ELSE IF c1 >= AdoptionThreshold THEN "adopt1"
      ELSE IF c0 >= DecisionThreshold /\ own = "0" THEN "decide"
      ELSE IF c1 >= DecisionThreshold /\ own = "1" THEN "decide"
      ELSE "random"

\* The branch processPhaseTwoMessages takes: "decide", "adopt0", "adopt1" or
\* "random".
PhaseTwoBranch(own, msgs) ==
  LET c0 == (IF own = "0" THEN 1 ELSE 0) + CountOf(msgs, "0")
      c1 == (IF own = "1" THEN 1 ELSE 0) + CountOf(msgs, "1")
  IN  IF c0 >= DecisionThreshold /\ own = "0" THEN "decide"
      ELSE IF c1 >= DecisionThreshold /\ own = "1" THEN "decide"
      ELSE IF c0 >= AdoptionThreshold THEN "adopt0"
      ELSE IF c1 >= AdoptionThreshold THEN "adopt1"
      ELSE "random"

\* Broadcast with the test i !== nodeId left out.
BroadcastToAll(i, phase, value, round) ==
  { [to |-> j, phase |-> phase, value |-> value, k |-> round, from |-> i] :
      j \in Nodes }

\* The fetch requests of broadcastMessage(phase, value, k) issued by node i.
Broadcast(i, phase, value, round) ==
  { [to |-> j, phase |-> phase, value |-> value, k |-> round, from |-> i] :
      j \in Nodes \ {i} }

\* ------------------------------------------------------------------- Init

\* Nodes are interchangeable, so the initial values are taken up to a
\* renaming of the nodes: the first z nodes start with 0, the others with 1.
InitWith(configs) ==
  /\ \E c \in configs :
       /\ N = c.N
       /\ F = c.F
       /\ isFaulty = [i \in 0 .. (c.N - 1) |-> i \in c.faulty]
  /\ \E z \in 0 .. N :
       initialValue = [i \in Nodes |-> IF i < z THEN "0" ELSE "1"]
  /\ killed = [i \in Nodes |-> FALSE]
  /\ x = [i \in Nodes |-> IF isFaulty[i] THEN NULL ELSE initialValue[i]]
  /\ decided = [i \in Nodes |-> IF isFaulty[i] THEN NULL ELSE FALSE]
  /\ k = [i \in Nodes |-> IF isFaulty[i] THEN NULL ELSE 0]
  /\ phaseOneMessages = [i \in Nodes |-> <<>>]
  /\ phaseTwoMessages = [i \in Nodes |-> <<>>]
  /\ consensusRunning = [i \in Nodes |-> FALSE]
  /\ pc = [i \in Nodes |-> "idle"]
  /\ network = {}
  /\ res = [op |-> "none", node |-> 0, status |-> 0]
  /\ posted = 0

Init == InitWith(Configs)
NetInit == InitWith(NetConfigs)
ApiInit == InitWith(ApiConfigs)

\* ------------------------------------------------------------ the driver

\* WaitCond with the test of messages[currentK].length left out.
WaitCondNoLength(i, phase, timedOut) ==
  LET messages == IF phase = 1 THEN phaseOneMessages[i] ELSE phaseTwoMessages[i]
  IN  /\ ~timedOut
      /\ k[i] \notin DOMAIN messages

\* The loop condition of waitForMessages(phase) for node i: TRUE when the
\* node goes on waiting.  timedOut stands for Date.now() - startTime >= 200.
WaitCond(i, phase, timedOut) ==
  LET messages == IF phase = 1 THEN phaseOneMessages[i] ELSE phaseTwoMessages[i]
  IN  /\ ~timedOut
      /\ \/ k[i] \notin DOMAIN messages
         \/ BagCardinality(messages[k[i]]) < N - F - 1

\* LoopHead with the test of state.killed left out of the loop condition and
\* of runPhaseOne.
LoopHeadIgnoresKilled(i) ==
  IF ~decided[i]
    THEN /\ k[i] <= MaxRound
         /\ network' = network \cup Broadcast(i, 1, x[i], k[i])
         /\ pc' = [pc EXCEPT ![i] = "bcast1"]
    ELSE /\ pc' = [pc EXCEPT ![i] = "done"]
         /\ UNCHANGED network

\* The head of the while loop of startConsensus, up to the await inside
\* broadcastMessage(1, ...): the loop ends, or runPhaseOne broadcasts.
LoopHead(i) ==
  IF ~decided[i] /\ ~killed[i]
    THEN /\ k[i] <= MaxRound
         /\ network' = network \cup Broadcast(i, 1, x[i], k[i])
         /\ pc' = [pc EXCEPT ![i] = "bcast1"]
    ELSE /\ pc' = [pc EXCEPT ![i] = "done"]
         /\ UNCHANGED network

\* AfterWaitOne with the tests of state.killed in processPhaseOneMessages and
\* in runPhaseTwo left out.
AfterWaitOneIgnoresKilled(i) ==
  LET newX == PhaseOneResult(x[i], Bucket(phaseOneMessages[i], k[i]))
  IN  /\ phaseOneMessages' =
           [phaseOneMessages EXCEPT ![i] = Touch(@, k[i])]
      /\ x' = [x EXCEPT ![i] = newX]
      /\ network' = network \cup Broadcast(i, 2, newX, k[i])
      /\ pc' = [pc EXCEPT ![i] = "bcast2"]

\* After waitForMessages(1) returns: processPhaseOneMessages, then runPhaseTwo
\* up to the await inside broadcastMessage(2, ...).  A killed node skips the
\* tally and runPhaseTwo, and reaches the delay at the end of the loop body.
AfterWaitOne(i) ==
  IF killed[i]
    THEN /\ pc' = [pc EXCEPT ![i] = "sleep"]
         /\ UNCHANGED <<x, phaseOneMessages, network>>
    ELSE LET newX == PhaseOneResult(x[i], Bucket(phaseOneMessages[i], k[i]))
         IN  /\ phaseOneMessages' =
                  [phaseOneMessages EXCEPT ![i] = Touch(@, k[i])]
             /\ x' = [x EXCEPT ![i] = newX]
             /\ network' = network \cup Broadcast(i, 2, newX, k[i])
             /\ pc' = [pc EXCEPT ![i] = "bcast2"]

\* AfterWaitTwo with k incremented whether or not the node decided.
AfterWaitTwoAlwaysIncrements(i) ==
  /\ pc' = [pc EXCEPT ![i] = "sleep"]
  /\ IF killed[i]
       THEN UNCHANGED <<x, decided, k, phaseTwoMessages>>
       ELSE LET branch == PhaseTwoBranch(x[i], Bucket(phaseTwoMessages[i], k[i]))
            IN  /\ phaseTwoMessages' =
                     [phaseTwoMessages EXCEPT ![i] = Touch(@, k[i])]
                /\ k' = [k EXCEPT ![i] = @ + 1]
                /\ IF branch = "decide"
                     THEN /\ decided' = [decided EXCEPT ![i] = TRUE]
                          /\ UNCHANGED x
                     ELSE /\ \E b \in Bit :
                               /\ branch = "adopt0" => b = "0"
                               /\ branch = "adopt1" => b = "1"
                               /\ x' = [x EXCEPT ![i] = b]
                          /\ UNCHANGED decided

\* AfterWaitTwo with the final else of processPhaseTwoMessages, the draw of
\* a random bit, left out.
AfterWaitTwoNoDraw(i) ==
  /\ pc' = [pc EXCEPT ![i] = "sleep"]
  /\ IF killed[i]
       THEN UNCHANGED <<x, decided, k, phaseTwoMessages>>
       ELSE LET branch == PhaseTwoBranch(x[i], Bucket(phaseTwoMessages[i], k[i]))
            IN  /\ phaseTwoMessages' =
                     [phaseTwoMessages EXCEPT ![i] = Touch(@, k[i])]
                /\ IF branch = "decide"
                     THEN /\ decided' = [decided EXCEPT ![i] = TRUE]
                          /\ UNCHANGED <<x, k>>
                     ELSE /\ x' = [x EXCEPT ![i] =
                                     IF branch = "adopt0" THEN "0"
                                     ELSE IF branch = "adopt1" THEN "1"
                                     ELSE @]
                          /\ k' = [k EXCEPT ![i] = @ + 1]
                          /\ UNCHANGED decided

\* After waitForMessages(2) returns: processPhaseTwoMessages, then the
\* increment of k in startConsensus, up to the delay that ends the loop body.
AfterWaitTwo(i) ==
  /\ pc' = [pc EXCEPT ![i] = "sleep"]
  /\ IF killed[i]
       THEN UNCHANGED <<x, decided, k, phaseTwoMessages>>
       ELSE LET branch == PhaseTwoBranch(x[i], Bucket(phaseTwoMessages[i], k[i]))
            IN  /\ phaseTwoMessages' =
                     [phaseTwoMessages EXCEPT ![i] = Touch(@, k[i])]
                /\ IF branch = "decide"
                     THEN /\ decided' = [decided EXCEPT ![i] = TRUE]
                          /\ UNCHANGED <<x, k>>
                     ELSE /\ \E b \in Bit :
                               /\ branch = "adopt0" => b = "0"
                               /\ branch = "adopt1" => b = "1"
                               /\ x' = [x EXCEPT ![i] = b]
                          /\ k' = [k EXCEPT ![i] = @ + 1]
                          /\ UNCHANGED decided

\* Promise.all of broadcastMessage resolves: every request of node i has been
\* answered.  waitForMessages then evaluates its loop condition for the first
\* time, with no time elapsed.
BroadcastDone(i) ==
  /\ pc[i] \in {"bcast1", "bcast2"}
  /\ \A m \in network : m.from # i
  /\ IF pc[i] = "bcast1"
       THEN /\ IF WaitCond(i, 1, FALSE)
                 THEN /\ pc' = [pc EXCEPT ![i] = "wait1"]
                      /\ UNCHANGED <<x, phaseOneMessages, network>>
                 ELSE AfterWaitOne(i)
            /\ UNCHANGED <<decided, k, phaseTwoMessages>>
       ELSE /\ IF WaitCond(i, 2, FALSE)
                 THEN /\ pc' = [pc EXCEPT ![i] = "wait2"]
                      /\ UNCHANGED <<x, decided, k, phaseTwoMessages>>
                 ELSE AfterWaitTwo(i)
            /\ UNCHANGED <<phaseOneMessages, network>>
  /\ UNCHANGED <<N, F, isFaulty, initialValue, killed, consensusRunning,
                 res, posted>>

\* delay(10) inside waitForMessages has elapsed: a killed node returns, a live
\* one evaluates the loop condition again and leaves the loop when the bucket
\* is full enough or the 200 ms have passed.
WaitTick(i) ==
  /\ pc[i] \in {"wait1", "wait2"}
  /\ LET phase == IF pc[i] = "wait1" THEN 1 ELSE 2
     IN  killed[i] \/ \E timedOut \in BOOLEAN : ~WaitCond(i, phase, timedOut)
  /\ IF pc[i] = "wait1"
       THEN /\ AfterWaitOne(i)
            /\ UNCHANGED <<decided, k, phaseTwoMessages>>
       ELSE /\ AfterWaitTwo(i)
            /\ UNCHANGED <<phaseOneMessages, network>>
  /\ UNCHANGED <<N, F, isFaulty, initialValue, killed, consensusRunning,
                 res, posted>>

\* delay(10) at the end of the loop body has elapsed.
SleepDone(i) ==
  /\ pc[i] = "sleep"
  /\ LoopHead(i)
  /\ UNCHANGED <<N, F, isFaulty, initialValue, killed, x, decided, k,
                 phaseOneMessages, phaseTwoMessages, consensusRunning,
                 res, posted>>

\* ------------------------------------------------------------ the handlers

Response(op, i, status) == [op |-> op, node |-> i, status |-> status]

\* The status GET /start answers with at node i.
StartStatus(i) == IF isFaulty[i] \/ killed[i] THEN 500 ELSE 200

\* StartHandler with the test of state.killed left out.
StartHandlerIgnoresKilled(i) ==
  /\ IF isFaulty[i]
       THEN UNCHANGED <<consensusRunning, decided, pc, network>>
       ELSE IF ~consensusRunning[i]
              THEN /\ consensusRunning' = [consensusRunning EXCEPT ![i] = TRUE]
                   /\ IF N = 1 /\ ~isFaulty[i]
                        THEN /\ decided' = [decided EXCEPT ![i] = TRUE]
                             /\ pc' = [pc EXCEPT ![i] = "done"]
                             /\ UNCHANGED network
                        ELSE /\ LoopHead(i)
                             /\ UNCHANGED decided
              ELSE UNCHANGED <<consensusRunning, decided, pc, network>>
  /\ UNCHANGED <<N, F, isFaulty, initialValue, killed, x, k,
                 phaseOneMessages, phaseTwoMessages>>

\* StartHandler with the single-node case of startConsensus left out.
StartHandlerNoShortcut(i) ==
  /\ IF isFaulty[i] \/ killed[i]
       THEN UNCHANGED <<consensusRunning, decided, pc, network>>
       ELSE IF ~consensusRunning[i]
              THEN /\ consensusRunning' = [consensusRunning EXCEPT ![i] = TRUE]
                   /\ LoopHead(i)
                   /\ UNCHANGED decided
              ELSE UNCHANGED <<consensusRunning, decided, pc, network>>
  /\ UNCHANGED <<N, F, isFaulty, initialValue, killed, x, k,
                 phaseOneMessages, phaseTwoMessages>>

\* StartHandler with the test of consensusRunning left out.
StartHandlerIgnoresRunning(i) ==
  /\ IF isFaulty[i] \/ killed[i]
       THEN UNCHANGED <<consensusRunning, decided, pc, network>>
       ELSE /\ consensusRunning' = [consensusRunning EXCEPT ![i] = TRUE]
            /\ IF N = 1 /\ ~isFaulty[i]
                 THEN /\ decided' = [decided EXCEPT ![i] = TRUE]
                      /\ pc' = [pc EXCEPT ![i] = "done"]
                      /\ UNCHANGED network
                 ELSE /\ LoopHead(i)
                      /\ UNCHANGED decided
  /\ UNCHANGED <<N, F, isFaulty, initialValue, killed, x, k,
                 phaseOneMessages, phaseTwoMessages>>

\* GET /start: what the handler does to the node.
StartHandler(i) ==
  /\ IF isFaulty[i] \/ killed[i]
       THEN UNCHANGED <<consensusRunning, decided, pc, network>>
       ELSE IF ~consensusRunning[i]
              THEN /\ consensusRunning' = [consensusRunning EXCEPT ![i] = TRUE]
                   /\ IF N = 1 /\ ~isFaulty[i]
                        THEN /\ decided' = [decided EXCEPT ![i] = TRUE]
                             /\ pc' = [pc EXCEPT ![i] = "done"]
                             /\ UNCHANGED network
                        ELSE /\ LoopHead(i)
                             /\ UNCHANGED decided
              ELSE UNCHANGED <<consensusRunning, decided, pc, network>>
  /\ UNCHANGED <<N, F, isFaulty, initialValue, killed, x, k,
                 phaseOneMessages, phaseTwoMessages>>

\* GET /stop: what the handler does to the node; it always answers 200.
StopHandler(i) ==
  /\ killed' = [killed EXCEPT ![i] = TRUE]
  /\ consensusRunning' = [consensusRunning EXCEPT ![i] = FALSE]
  /\ UNCHANGED <<N, F, isFaulty, initialValue, x, decided, k,
                 phaseOneMessages, phaseTwoMessages, pc, network>>

\* GET /getState: the handler answers 200 with the state and changes nothing.
GetStateHandler(i) ==
  /\ UNCHANGED <<N, F, isFaulty, initialValue, killed, x, decided, k,
                 phaseOneMessages, phaseTwoMessages, consensusRunning, pc,
                 network>>

\* The status POST /message answers with at node i.
MessageStatus(i) == IF killed[i] \/ isFaulty[i] THEN 500 ELSE 200

\* MessageInboxes with the test of state.killed left out.
MessageInboxesIgnoresKilled(i, body) ==
  LET entry == [value |-> body.value, from |-> body.from]
  IN  IF isFaulty[i]
        THEN <<phaseOneMessages[i], phaseTwoMessages[i]>>
      ELSE IF body.phase = 1
        THEN <<Push(phaseOneMessages[i], body.k, entry), phaseTwoMessages[i]>>
      ELSE IF body.phase = 2
        THEN <<phaseOneMessages[i], Push(phaseTwoMessages[i], body.k, entry)>>
      ELSE <<phaseOneMessages[i], phaseTwoMessages[i]>>

\* MessageInboxes with the test of isFaulty left out.
MessageInboxesIgnoresFaulty(i, body) ==
  LET entry == [value |-> body.value, from |-> body.from]
  IN  IF killed[i]
        THEN <<phaseOneMessages[i], phaseTwoMessages[i]>>
      ELSE IF body.phase = 1
        THEN <<Push(phaseOneMessages[i], body.k, entry), phaseTwoMessages[i]>>
      ELSE IF body.phase = 2
        THEN <<phaseOneMessages[i], Push(phaseTwoMessages[i], body.k, entry)>>
      ELSE <<phaseOneMessages[i], phaseTwoMessages[i]>>

\* MessageInboxes with messages of a round other than state.k dropped.
MessageInboxesCurrentRound(i, body) ==
  LET entry == [value |-> body.value, from |-> body.from]
  IN  IF killed[i] \/ isFaulty[i] \/ body.k # k[i]
        THEN <<phaseOneMessages[i], phaseTwoMessages[i]>>
      ELSE IF body.phase = 1
        THEN <<Push(phaseOneMessages[i], body.k, entry), phaseTwoMessages[i]>>
      ELSE IF body.phase = 2
        THEN <<phaseOneMessages[i], Push(phaseTwoMessages[i], body.k, entry)>>
      ELSE <<phaseOneMessages[i], phaseTwoMessages[i]>>

\* What POST /message does to the two inboxes of node i for the request
\* body: <<phaseOneMessages[i], phaseTwoMessages[i]>> afterwards.
MessageInboxes(i, body) ==
  LET entry == [value |-> body.value, from |-> body.from]
  IN  IF killed[i] \/ isFaulty[i]
        THEN <<phaseOneMessages[i], phaseTwoMessages[i]>>
      ELSE IF body.phase = 1
        THEN <<Push(phaseOneMessages[i], body.k, entry), phaseTwoMessages[i]>>
      ELSE IF body.phase = 2
        THEN <<phaseOneMessages[i], Push(phaseTwoMessages[i], body.k, entry)>>
      ELSE <<phaseOneMessages[i], phaseTwoMessages[i]>>

\* POST /message at node i with the given request body.
HandleMessage(i, body) ==
  /\ phaseOneMessages' =
       [phaseOneMessages EXCEPT ![i] = MessageInboxes(i, body)[1]]
  /\ phaseTwoMessages' =
       [phaseTwoMessages EXCEPT ![i] = MessageInboxes(i, body)[2]]

\* A request issued by broadcastMessage reaches its peer, whose answer the
\* sender discards.
Deliver(m) ==
  /\ m \in network
  /\ network' = network \ {m}
  /\ HandleMessage(m.to, [phase |-> m.phase, value |-> m.value,
                          k |-> m.k, from |-> m.from])
  /\ UNCHANGED <<N, F, isFaulty, initialValue, killed, x, decided, k,
                 consensusRunning, pc, res, posted>>

\* ---------------------------------------------------------- the embedder

\* The embedder's client calls an endpoint and records the answer.
Start(i) ==
  /\ StartHandler(i)
  /\ res' = Response("start", i, StartStatus(i))
  /\ UNCHANGED posted

Stop(i) ==
  /\ StopHandler(i)
  /\ res' = Response("stop", i, 200)
  /\ UNCHANGED posted

GetState(i) ==
  /\ GetStateHandler(i)
  /\ res' = Response("getState", i, 200)
  /\ UNCHANGED posted

\* The request bodies the client posts: well-formed ones, and ones with a
\* phase or a value outside the protocol.
PostBodies ==
  [phase : {1, 2, 3}, value : {"1", "?", "x"}, k : 0 .. MaxRound, from : {1}]

PostMessage(i, body) ==
  /\ posted < MaxPosts
  /\ posted' = posted + 1
  /\ HandleMessage(i, body)
  /\ res' = Response("message", i, MessageStatus(i))
  /\ UNCHANGED <<N, F, isFaulty, initialValue, killed, x, decided, k,
                 consensusRunning, pc, network>>

\* The embedder starts the nodes of a network and leaves them alone.
Launch(i) ==
  /\ StartHandler(i)
  /\ UNCHANGED <<res, posted>>

\* ------------------------------------------------------------ specification

\* Small networks, started, stopped and inspected in any order.
Next ==
  \/ \E i \in Nodes : Start(i)
  \/ \E i \in Nodes : Stop(i)
  \/ \E i \in Nodes : GetState(i)
  \/ \E m \in network : Deliver(m)
  \/ \E i \in Nodes : BroadcastDone(i)
  \/ \E i \in Nodes : WaitTick(i)
  \/ \E i \in Nodes : SleepDone(i)

Spec == Init /\ [][Next]_vars

\* Networks of three nodes that are started and never stopped.
NetNext ==
  \/ \E i \in Nodes : Launch(i)
  \/ \E m \in network : Deliver(m)
  \/ \E i \in Nodes : BroadcastDone(i)
  \/ \E i \in Nodes : WaitTick(i)
  \/ \E i \in Nodes : SleepDone(i)

NetSpec == NetInit /\ [][NetNext]_vars

\* One live node, every endpoint called in any order, POST /message included.
ApiNext ==
  \/ Next
  \/ \E i \in Nodes : \E body \in PostBodies : PostMessage(i, body)

ApiSpec == ApiInit /\ [][ApiNext]_vars

\* Small networks under the scheduling of the runtime: every fetch request is
\* answered, every timer fires, and a driver whose await has resolved is
\* resumed.
Fairness(i) ==
  /\ WF_vars(\E m \in network : m.from = i /\ Deliver(m))
  /\ WF_vars(i \in Nodes /\ BroadcastDone(i))
  /\ WF_vars(i \in Nodes /\ WaitTick(i))
  /\ WF_vars(i \in Nodes /\ SleepDone(i))

FairSpec == Spec /\ Fairness(0) /\ Fairness(1)

\* ------------------------------------------------------------------ claims

NonFaulty == {i \in Nodes : ~isFaulty[i]}

\* C1 (agreement): in every reachable state, any two non-faulty nodes that
\* have both decided hold the same x.
Agreement ==
  \A i \in NonFaulty : \A j \in NonFaulty :
    (decided[i] /\ decided[j]) => x[i] = x[j]

\* C2 (decision is irrevocable): for a non-faulty node, no step takes decided
\* from true to false, a decided node holds 0 or 1, and no step changes the x
\* of a node that has decided.
DecisionIrrevocable ==
  [][\A i \in NonFaulty :
       /\ decided[i] => (decided'[i] /\ x'[i] = x[i])
       /\ decided'[i] => x'[i] \in Bit]_vars

\* A node decided, was stopped afterwards and then refused a start.
DecidedThenStoppedAndStarted ==
  \E i \in NonFaulty :
    /\ N > 1
    /\ decided[i]
    /\ killed[i]
    /\ res = Response("start", i, 500)

\* C3 (validity, the part a finite run refutes): when all non-faulty nodes
\* start with the same value v, a non-faulty node that has decided holds v.
Validity ==
  \A v \in Bit :
    (\A i \in NonFaulty : initialValue[i] = v /\ pc[i] # "idle" /\ ~killed[i])
      => \A i \in NonFaulty : decided[i] => x[i] = v

\* Node i is started, live and undecided, every other non-faulty node has
\* decided and left its loop in an earlier round, the faulty nodes are at most
\* F and F is below (N - 1) / 2.
Stranded(i) ==
  /\ 2 * F < N - 1
  /\ Cardinality(Nodes \ NonFaulty) <= F
  /\ i \in NonFaulty
  /\ pc[i] \notin {"idle", "done"}
  /\ ~decided[i]
  /\ ~killed[i]
  /\ \A j \in NonFaulty \ {i} : decided[j] /\ pc[j] = "done" /\ k[j] < k[i]

\* C4 (termination, in the form a finite run refutes): no run leaves a
\* started, live, undecided node alone in a round that no other node will
\* run.  Such a node never decides (StrandedForever), so termination needs
\* this to hold.
Termination == \A i \in Nodes : ~Stranded(i)

\* Once stranded, a node stays stranded, hence undecided: no peer sends for
\* its round, so its phase-1 tally gives "?" and its phase-2 tally cannot
\* decide.
StrandedForever == [][\A i \in Nodes : Stranded(i) => Stranded(i)']_vars

\* C5 (round counter): k starts at 0, and a step changes k only by adding 1,
\* at the end of a phase-2 tally of a node that is neither killed nor decided
\* after it.
RoundCounter ==
  /\ \A i \in NonFaulty : k[i] = 0
  /\ [][\A i \in NonFaulty :
          k'[i] # k[i] =>
            /\ k'[i] = k[i] + 1
            /\ pc[i] \in {"bcast2", "wait2"}
            /\ pc'[i] = "sleep"
            /\ ~decided'[i]
            /\ ~killed'[i]]_vars

\* One node has moved on to round 1 while another decided in round 0 and kept
\* k = 0.
RoundAdvancedAndRoundDecided ==
  \E i \in NonFaulty : \E j \in NonFaulty :
    /\ k[i] = 1
    /\ decided[j]
    /\ k[j] = 0

\* C6 (stop is permanent): a step taken while node i is killed leaves it
\* killed, leaves x, decided and k alone, launches no driver loop, enters no
\* phase and sends nothing; a start it answers is refused, a stop or a
\* getState it answers succeeds.
StopPermanent ==
  [][\A i \in Nodes :
       killed[i] =>
         /\ killed'[i]
         /\ x'[i] = x[i] /\ decided'[i] = decided[i] /\ k'[i] = k[i]
         /\ ~consensusRunning'[i]
         /\ pc'[i] # pc[i] => pc'[i] \notin {"bcast1", "bcast2"}
         /\ \A m \in network' \ network : m.from # i
         /\ (res' # res /\ res'.node = i) =>
              /\ res'.op = "start" => res'.status = 500
              /\ res'.op \in {"stop", "getState"} => res'.status = 200]_vars

\* A node stopped in the middle of a round has left its loop undecided and
\* has refused a start.
StoppedMidRoundRefusesStart ==
  \E i \in NonFaulty :
    /\ killed[i]
    /\ pc[i] = "done"
    /\ ~decided[i]
    /\ res = Response("start", i, 500)

\* C7 (messages to a killed or faulty node): a step taken while node i is
\* killed or faulty leaves both its inboxes as they were, and a message the
\* client posts to it (the step that counts it in posted) is answered 500.
DeadNodeRejectsMessages ==
  [][\A i \in Nodes :
       (killed[i] \/ isFaulty[i]) =>
         /\ phaseOneMessages'[i] = phaseOneMessages[i]
         /\ phaseTwoMessages'[i] = phaseTwoMessages[i]
         /\ (posted' # posted /\ res'.node = i) =>
              res' = Response("message", i, 500)]_vars

\* A non-faulty node that was stopped has answered a posted message with 500.
KilledNodeRejectedPost ==
  \E i \in NonFaulty :
    /\ killed[i]
    /\ res = Response("message", i, 500)

\* A request body outside the protocol: a phase other than 1 and 2, or a
\* value other than 0, 1 and "?".
Malformed(body) == body.phase \notin {1, 2} \/ body.value \notin Value

\* C8 (malformed messages): a malformed message posted to a live non-faulty
\* node is answered with an error and not stored.
MalformedRejected ==
  [][\A i \in NonFaulty : \A body \in PostBodies :
       (~killed[i] /\ Malformed(body) /\ PostMessage(i, body)) =>
         /\ res'.status # 200
         /\ phaseOneMessages'[i] = phaseOneMessages[i]
         /\ phaseTwoMessages'[i] = phaseTwoMessages[i]]_vars

\* C9 (single-node shortcut): in a network of one non-faulty node, a start
\* that succeeds leaves the node decided, and the node never enters a phase,
\* sends or tallies: x stays the initial value, k stays 0, the inboxes stay
\* unset.
SingleNodeShortcut ==
  /\ [](N = 1 /\ ~isFaulty[0] =>
          /\ pc[0] \in {"idle", "done"}
          /\ decided[0] <=> pc[0] = "done"
          /\ x[0] = initialValue[0]
          /\ k[0] = 0
          /\ network = {}
          /\ phaseOneMessages[0] = <<>>
          /\ phaseTwoMessages[0] = <<>>)
  /\ [][(N = 1 /\ ~isFaulty[0] /\ res' # res /\ res' = Response("start", 0, 200))
          => decided'[0]]_vars

\* The single node has been started with success and reports decided.
SingleNodeDecided ==
  /\ N = 1
  /\ ~isFaulty[0]
  /\ decided[0]
  /\ ~killed[0]
  /\ res = Response("getState", 0, 200)

\* C10 (faulty nodes): a faulty node has x, decided and k unset, runs no
\* driver loop, has sent nothing and has stored nothing.
FaultyNodeInert ==
  \A i \in Nodes \ NonFaulty :
    /\ x[i] = NULL
    /\ decided[i] = NULL
    /\ k[i] = NULL
    /\ ~consensusRunning[i]
    /\ pc[i] = "idle"
    /\ \A m \in network : m.from # i
    /\ phaseOneMessages[i] = <<>>
    /\ phaseTwoMessages[i] = <<>>

\* A faulty node has been stopped, has answered every request of a running
\* peer's broadcasts and has just refused a message posted by the client.
FaultyNodeDriven ==
  \E i \in Nodes \ NonFaulty :
    /\ killed[i]
    /\ res = Response("message", i, 500)
    /\ \E j \in NonFaulty : pc[j] \in {"wait2", "sleep"}
    /\ \A m \in network : m.to # i

\* The steps the driver of a stopped node still takes, by the suspension it
\* is resumed from: the end of a broadcast leads into the bounded wait that
\* follows it or past it, a wait tick and the inter-round sleep lead on.
StoppedDriverStep(i) ==
  \/ pc[i] = "bcast1" /\ pc'[i] \in {"wait1", "sleep"}
  \/ pc[i] = "bcast2" /\ pc'[i] \in {"wait2", "sleep"}
  \/ pc[i] \in {"wait1", "wait2"} /\ pc'[i] = "sleep"
  \/ pc[i] = "sleep" /\ pc'[i] = "done"

\* The driver of node i, stopped while it runs, leaves its loop.
Exits(i) ==
  (i \in Nodes /\ killed[i] /\ pc[i] \notin {"idle", "done"})
    ~> (i \in Nodes /\ pc[i] = "done")

Reentrancy ==
  /\ [](\A i \in NonFaulty :
          (pc[i] # "idle" /\ ~killed[i]) => consensusRunning[i])
  /\ [][\A i \in NonFaulty :
          (Start(i) /\ pc[i] # "idle") =>
               /\ UNCHANGED <<killed, x, decided, k, phaseOneMessages,
                              phaseTwoMessages, consensusRunning, pc, network>>
               /\ ~killed[i] => res' = Response("start", i, 200)]_vars

\* A node has answered 200 to a start while its peer was decided and stopped:
\* the peer needed the node's phase-2 vote to decide, so the node was running
\* before the peer decided, and the start came after the peer's stop.
RestartedAfterPeerStopped ==
  \E i \in NonFaulty : \E j \in NonFaulty :
    /\ i # j
    /\ decided[j]
    /\ killed[j]
    /\ res = Response("start", i, 200)

\* Node i takes the step that applies its phase-2 tally.
PhaseTwoTallyStep(i) ==
  /\ pc[i] \in {"bcast2", "wait2"}
  /\ pc'[i] = "sleep"
  /\ ~killed[i]

\* The number of phase-2 votes for v that node i holds for its round: its
\* own x and the entries of the bucket of round k.
PhaseTwoVotes(i, v) ==
  (IF x[i] = v THEN 1 ELSE 0)
    + BagCardinality(
        [e \in {d \in DOMAIN Bucket(phaseTwoMessages[i], k[i]) : d.value = v}
           |-> Bucket(phaseTwoMessages[i], k[i])[e]])

\* C13 (phase-2 tally): the step that applies the phase-2 tally of node i
\* follows the reference rule, first match wins: (a) at least floor(n/2)+1
\* votes for 0 and own x = 0: decided, x stays 0; (b) the same for 1; (c) at
\* least floor(n/3)+1 votes for 0: x := 0; (d) the same for 1; (e) otherwise
\* x becomes a bit; only (a) and (b) decide, so a node decides its own x and
\* never while x is "?".
PhaseTwoRule ==
  [][\A i \in NonFaulty :
       PhaseTwoTallyStep(i) =>
         LET n == N - F
             c0 == PhaseTwoVotes(i, "0")
             c1 == PhaseTwoVotes(i, "1")
         IN  /\ IF c0 >= (n \div 2) + 1 /\ x[i] = "0"
                   THEN decided'[i] /\ x'[i] = "0"
                 ELSE IF c1 >= (n \div 2) + 1 /\ x[i] = "1"
                   THEN decided'[i] /\ x'[i] = "1"
                 ELSE IF c0 >= (n \div 3) + 1
                   THEN ~decided'[i] /\ x'[i] = "0"
                 ELSE IF c1 >= (n \div 3) + 1
                   THEN ~decided'[i] /\ x'[i] = "1"
                 ELSE ~decided'[i] /\ x'[i] \in Bit
             /\ decided'[i] => (x[i] \in Bit /\ x'[i] = x[i])]_vars

\* In one network of three nodes, a node has decided in round 0 on two votes
\* for its own value while another has adopted the other value or drawn it
\* and gone on to round 1.
DecidedAndAdoptedApart ==
  \E i \in NonFaulty : \E j \in NonFaulty :
    /\ N = 3
    /\ decided[i] /\ k[i] = 0
    /\ ~decided[j] /\ k[j] = 1 /\ pc[j] = "sleep"
    /\ x[j] # x[i]

\* Node i takes the step that applies its phase-1 tally.
PhaseOneTallyStep(i) ==
  /\ pc[i] \in {"bcast1", "wait1"}
  /\ pc'[i] = "bcast2"

\* The number of phase-1 votes for the bit v that node i holds for its
\* round: its own x and the entries of the bucket of round k.
PhaseOneVotes(i, v) ==
  (IF x[i] = v THEN 1 ELSE 0)
    + BagCardinality(
        [e \in {d \in DOMAIN Bucket(phaseOneMessages[i], k[i]) : d.value = v}
           |-> Bucket(phaseOneMessages[i], k[i])[e]])

\* C14 (phase-1 tally): the step that applies the phase-1 tally of node i
\* sets x to 0 when the votes for 0 (own x and received values, "?" not
\* counted) reach floor(N/2)+1, else to 1 when the votes for 1 do, else to
\* "?"; at every such step the two counts add up to N at most and do not
\* both reach the majority.
PhaseOneRule ==
  [][\A i \in NonFaulty :
       PhaseOneTallyStep(i) =>
         LET c0 == PhaseOneVotes(i, "0")
             c1 == PhaseOneVotes(i, "1")
         IN  /\ x'[i] = IF c0 >= (N \div 2) + 1 THEN "0"
                         ELSE IF c1 >= (N \div 2) + 1 THEN "1"
                         ELSE "?"
             /\ c0 + c1 <= N
             /\ ~(c0 >= (N \div 2) + 1 /\ c1 >= (N \div 2) + 1)]_vars

\* In one round of a network of three nodes, the phase-1 tally of one node
\* has found a majority and that of another has found none.
MajorityAndNoMajority ==
  \E i \in NonFaulty : \E j \in NonFaulty :
    /\ N = 3
    /\ k[i] = k[j]
    /\ pc[i] = "bcast2" /\ x[i] \in Bit
    /\ pc[j] = "bcast2" /\ x[j] = "?"

\* The bucket of phase p and round k[i] of node i holds the N - F - 1
\* messages a wait is satisfied with.
BucketFull(i, p) ==
  BagCardinality(Bucket(IF p = 1 THEN phaseOneMessages[i]
                                 ELSE phaseTwoMessages[i], k[i])) >= N - F - 1

\* C15 (round ordering): the driver of a node moves only along broadcast(1,
\* x, k), phase-1 wait, phase-1 tally, broadcast(2, x, k) with the x the
\* tally produced, phase-2 wait, phase-2 tally, sleep; x changes only in a
\* tally; a tally applied right after the broadcast, before any time of the
\* wait window has passed, finds at least N - F - 1 messages in its bucket.
RoundOrdering ==
  [][\A i \in NonFaulty :
       /\ pc'[i] # pc[i] =>
            \/ /\ pc[i] \in {"idle", "sleep"} /\ pc'[i] = "bcast1"
               /\ network \cap Broadcast(i, 1, x[i], k[i]) = {}
               /\ network' = network \cup Broadcast(i, 1, x[i], k[i])
               /\ x'[i] = x[i] /\ k'[i] = k[i]
            \/ /\ pc[i] \in {"idle", "sleep"} /\ pc'[i] = "done"
               /\ network' = network
            \/ /\ pc[i] = "bcast1" /\ pc'[i] = "wait1"
               /\ network' = network /\ x'[i] = x[i]
            \/ /\ pc[i] \in {"bcast1", "wait1"} /\ pc'[i] = "bcast2"
               /\ pc[i] = "bcast1" => BucketFull(i, 1)
               /\ network \cap Broadcast(i, 2, x'[i], k[i]) = {}
               /\ network' = network \cup Broadcast(i, 2, x'[i], k[i])
               /\ k'[i] = k[i]
            \/ /\ pc[i] \in {"bcast1", "wait1"} /\ pc'[i] = "sleep"
               /\ killed[i]
            \/ /\ pc[i] = "bcast2" /\ pc'[i] = "wait2"
               /\ network' = network /\ x'[i] = x[i]
            \/ /\ pc[i] \in {"bcast2", "wait2"} /\ pc'[i] = "sleep"
               /\ pc[i] = "bcast2" => (killed[i] \/ BucketFull(i, 2))
               /\ network' = network
       /\ x'[i] # x[i] =>
            \/ pc[i] \in {"bcast1", "wait1"} /\ pc'[i] = "bcast2"
            \/ pc[i] \in {"bcast2", "wait2"} /\ pc'[i] = "sleep"]_vars

\* A node in round 1 has applied its phase-1 tally and the requests of its
\* broadcast of phase 2 carry the x the tally produced.
PhaseTwoSentAfterTally ==
  \E i \in NonFaulty :
    /\ N = 3
    /\ k[i] = 1
    /\ pc[i] = "bcast2"
    /\ Broadcast(i, 2, x[i], 1) \subseteq network

\* The values of the entries of the buckets of an inbox.
BucketValues(messages) ==
  {e.value : e \in UNION {DOMAIN messages[r] : r \in DOMAIN messages}}

\* C16 (value domain): the x of a non-faulty node is 0, 1 or "?", and it is
\* 0 or 1 while the node is in phase 1 of a round and when a live node has
\* finished a round; every phase-1 message, in flight or stored, carries 0 or
\* 1, and every phase-2 message 0, 1 or "?".
ValueDomain ==
  /\ \A i \in NonFaulty :
       /\ x[i] \in Value
       /\ pc[i] \in {"idle", "bcast1", "wait1"} => x[i] \in Bit
       /\ (pc[i] = "sleep" /\ ~killed[i]) => x[i] \in Bit
       /\ BucketValues(phaseOneMessages[i]) \subseteq Bit
       /\ BucketValues(phaseTwoMessages[i]) \subseteq Value
  /\ \A m \in network :
       /\ m.value \in Value
       /\ m.phase = 1 => m.value \in Bit

\* A node that sent "?" in phase 2 of round 0 has begun round 1, with a bit.
BitAfterQuestionMark ==
  \E i \in NonFaulty : \E j \in NonFaulty :
    /\ k[i] = 1
    /\ pc[i] \in {"bcast1", "wait1"}
    /\ x[i] \in Bit
    /\ 0 \in DOMAIN phaseTwoMessages[j]
    /\ [value |-> "?", from |-> i] \in DOMAIN phaseTwoMessages[j][0]

\* The number of entries of the array msgs that come from sender s.
FromCount(msgs, s) ==
  BagCardinality([e \in {d \in DOMAIN msgs : d.from = s} |-> msgs[e]])

\* Every bucket of the inbox messages of node i holds at most one entry from
\* each sender, none from i, and N - 1 entries at most.
OnePerSender(i, messages) ==
  \A r \in DOMAIN messages :
    /\ \A s \in Nodes : FromCount(messages[r], s) <= 1
    /\ FromCount(messages[r], i) = 0
    /\ BagCardinality(messages[r]) <= N - 1

\* C17 (broadcast fan-out): the requests a step of node i issues are those of
\* one broadcast of its round k, one to each peer and none to itself, and
\* no request of that phase and round was issued by i before (none is in
\* flight or stored at a peer); every bucket of every inbox holds at most one
\* entry from each sender, none from its owner, and N - 1 entries at most.
BroadcastFanOut ==
  /\ [](\A i \in Nodes :
          /\ OnePerSender(i, phaseOneMessages[i])
          /\ OnePerSender(i, phaseTwoMessages[i])
          /\ \A m \in network : m.from = i => m.to \in Nodes \ {i})
  /\ [][\A i \in NonFaulty :
          LET sent == {m \in network' \ network : m.from = i}
          IN  sent # {} =>
                \E p \in {1, 2} :
                  /\ {m.to : m \in sent} = Nodes \ {i}
                  /\ Cardinality(sent) = N - 1
                  /\ \A m \in sent :
                       m.phase = p /\ m.k = k[i] /\ m.value = x'[i]
                  /\ \A m \in network :
                       ~(m.from = i /\ m.phase = p /\ m.k = k[i])
                  /\ \A j \in Nodes :
                       FromCount(Bucket(IF p = 1 THEN phaseOneMessages[j]
                                                 ELSE phaseTwoMessages[j],
                                        k[i]), i) = 0]_vars

\* In a network of three nodes, a bucket holds an entry from each of the two
\* peers, with different values.
BucketFromBothPeers ==
  \E i \in NonFaulty :
    /\ N = 3
    /\ 1 \in DOMAIN phaseTwoMessages[i]
    /\ BagCardinality(phaseTwoMessages[i][1]) = 2
    /\ Cardinality(DOMAIN phaseTwoMessages[i][1]) = 2

\* Every bucket of the inbox before a step is a bucket after it and has lost
\* no entry.
Retained(before, after) ==
  \A r \in DOMAIN before :
    /\ r \in DOMAIN after
    /\ before[r] \sqsubseteq after[r]

\* C18 (inbox retention): no step removes an entry or a bucket from an
\* inbox; a request that reaches a live non-faulty node adds one entry
\* {value, from} to the bucket of its phase and round and leaves the other
\* inbox alone, whatever the round of the node and whether or not the node
\* has been started.
InboxRetention ==
  [][/\ \A i \in Nodes :
          /\ Retained(phaseOneMessages[i], phaseOneMessages'[i])
          /\ Retained(phaseTwoMessages[i], phaseTwoMessages'[i])
     /\ \A m \in network \ network' :
          (~isFaulty[m.to] /\ ~killed[m.to]) =>
            LET entry == [value |-> m.value, from |-> m.from]
                mine == IF m.phase = 1 THEN phaseOneMessages
                                       ELSE phaseTwoMessages
                mineAfter == IF m.phase = 1 THEN phaseOneMessages'
                                            ELSE phaseTwoMessages'
                other == IF m.phase = 1 THEN phaseTwoMessages
                                        ELSE phaseOneMessages
                otherAfter == IF m.phase = 1 THEN phaseTwoMessages'
                                             ELSE phaseOneMessages'
            IN  /\ m.k \in DOMAIN mineAfter[m.to]
                /\ CopiesIn(entry, mineAfter[m.to][m.k])
                     = CopiesIn(entry, Bucket(mine[m.to], m.k)) + 1
                /\ BagCardinality(mineAfter[m.to][m.k])
                     = BagCardinality(Bucket(mine[m.to], m.k)) + 1
                /\ otherAfter[m.to] = other[m.to]]_vars

\* A node that has not been started holds the phase-1 messages of round 1 of
\* both its peers.
EarlyMessagesKept ==
  \E i \in NonFaulty :
    /\ pc[i] = "idle"
    /\ 1 \in DOMAIN phaseOneMessages[i]
    /\ BagCardinality(phaseOneMessages[i][1]) = 2

\* C19 (frame after stop): every step that ends with node i stopped, the
\* stop itself and every later step, leaves its x, decided and k as they
\* were and issues no request of i; the driver is resumed from a broadcast,
\* a wait or the sleep without entering a phase, and the tally that was
\* pending is skipped: the inboxes, which a tally would touch, stay as they
\* were.
FrameAfterStop ==
  [][\A i \in NonFaulty :
       killed'[i] =>
         /\ x'[i] = x[i]
         /\ decided'[i] = decided[i]
         /\ k'[i] = k[i]
         /\ \A m \in network' \ network : m.from # i
         /\ phaseOneMessages'[i] = phaseOneMessages[i]
         /\ phaseTwoMessages'[i] = phaseTwoMessages[i]
         /\ pc'[i] # pc[i] =>
              /\ killed[i]
              /\ pc'[i] \in {"wait1", "wait2", "sleep", "done"}]_vars

\* A node was stopped in phase 2 with the messages of its pending tally in
\* the bucket; it has passed the tally, which would have replaced its "?" by
\* a bit.
PendingTallySkipped ==
  \E i \in NonFaulty :
    /\ killed[i]
    /\ pc[i] \in {"sleep", "done"}
    /\ x[i] = "?"
    /\ k[i] \in DOMAIN phaseTwoMessages[i]
    /\ BagCardinality(phaseTwoMessages[i][k[i]]) >= 1

\* The values proposed in round r: the x of the nodes that have applied the
\* phase-1 tally of round r and not yet the phase-2 tally, and the values of
\* the phase-2 messages of round r, in flight or stored.
Proposals(r) ==
  {x[i] : i \in {j \in NonFaulty : pc[j] \in {"bcast2", "wait2"} /\ k[j] = r}}
    \cup {m.value : m \in {n \in network : n.phase = 2 /\ n.k = r}}
    \cup UNION {{e.value : e \in DOMAIN Bucket(phaseTwoMessages[i], r)} :
                 i \in Nodes}

\* C20 (one proposal per round): the values proposed in one round never
\* include both 0 and 1, and two non-faulty nodes that decided in the same
\* round hold the same value.
UniqueProposal ==
  /\ \A r \in 0 .. (MaxRound + 1) : ~({"0", "1"} \subseteq Proposals(r))
  /\ \A i \in NonFaulty : \A j \in NonFaulty :
       (decided[i] /\ decided[j] /\ k[i] = k[j]) => x[i] = x[j]

\* Two nodes of a network of three have decided in round 1, on the value
\* that the third node, decided in round 0, does not hold.
DecidedTogetherInRoundOne ==
  \E i \in NonFaulty : \E j \in NonFaulty : \E h \in NonFaulty :
    /\ i # j
    /\ decided[i] /\ decided[j] /\ k[i] = 1 /\ k[j] = 1
    /\ decided[h] /\ k[h] = 0
    /\ x[h] # x[i]

====
